---- MODULE Spec2Model ----
(***************************************************************************)
(* Model of src/predict.py: the Predictor of a Stable-Diffusion inference  *)
(* service.  Predictor.setup is Init; Predictor.predict is modelled by the *)
(* actions PredictStart, PredictLoras, PredictInfer, PredictRetry and      *)
(* PredictOutput, one per phase of the method, in the order of the code.   *)
(* Each phase reads the arguments of predict where the code first reads    *)
(* them.  Scales are counted in tenths (8 stands for 0.8).                 *)
(***************************************************************************)
EXTENDS Integers, Sequences, FiniteSets, TLC

(***************************************************************************)
(* Bounds of the model.                                                    *)
(***************************************************************************)
\* longest hf_loras list built from the LoraIds
MaxLoras == 3
\* longest lora_scales list
MaxScales == 3
\* largest num_outputs requested (the code allows up to 4)
MaxOutputs == 2
\* longest hf_loras list handed to load_loras on its own
MaxDispatch == 2

(***************************************************************************)
(* Program constants.                                                      *)
(***************************************************************************)
MAX_IMAGE_SIZE == 1440

ASPECT_RATIOS ==
    [r \in {"1:1", "16:9", "21:9", "3:2", "2:3", "4:5", "5:4", "3:4", "4:3", "9:16", "9:21"} |->
        CASE r = "1:1"  -> <<1024, 1024>>
          [] r = "16:9" -> <<1344, 768>>
          [] r = "21:9" -> <<1536, 640>>
          [] r = "3:2"  -> <<1216, 832>>
          [] r = "2:3"  -> <<832, 1216>>
          [] r = "4:5"  -> <<896, 1088>>
          [] r = "5:4"  -> <<1088, 896>>
          [] r = "3:4"  -> <<896, 1152>>
          [] r = "4:3"  -> <<1152, 896>>
          [] r = "9:16" -> <<768, 1344>>
          [] r = "9:21" -> <<640, 1536>>]

\* the fixed pool of adapter names of load_loras
names ==
    << "a", "b", "c", "d", "e", "f", "g", "h", "i", "j", "k", "l", "m",
       "n", "o", "p", "q", "r", "s", "t", "u", "v", "w", "x", "y", "z" >>

\* the scale used for each LoRA when lora_scales is absent: 0.8
DefaultScale == 8

(***************************************************************************)
(* LoRA identifiers.  Each string below was matched against the regular    *)
(* expressions of load_loras; the Matches* operators give the outcome of   *)
(* re.match / str.endswith on these identifiers.                           *)
(***************************************************************************)
HubSlug      == "owner/name"
ReplicateTar == "https://replicate.delivery/xezq/abc/trained_model.tar"
HfUrl        == "https://huggingface.co/owner/name/resolve/main/w.safetensors"
CivitaiUrl   == "https://civitai.com/api/download/models/123?type=Model&format=SafeTensor"
SafetensorsUrl == "https://example.com/l.safetensors"
InvalidId    == "not-a-lora"
\* identifiers of more than one form, and a huggingface.co URL of one form
ReplicateSafetensors == "https://replicate.delivery/xezq/abc/trained_model.tar.safetensors"
CivitaiSafetensors ==
    "https://civitai.com/api/download/models/123?type=Model&format=SafeTensor&name=l.safetensors"
HfBinUrl     == "https://huggingface.co/owner/name/resolve/main/w.bin"

MatchesHubSlug(hf_lora)      == hf_lora = HubSlug
MatchesReplicateTar(hf_lora) == hf_lora \in {ReplicateTar, ReplicateSafetensors}
MatchesHfUrl(hf_lora)        == hf_lora \in {HfUrl, HfBinUrl}
MatchesCivitai(hf_lora)      == hf_lora \in {CivitaiUrl, CivitaiSafetensors}
EndsWithSafetensors(hf_lora) ==
    hf_lora \in {HfUrl, SafetensorsUrl, ReplicateSafetensors, CivitaiSafetensors}

\* identifiers fetched through the download cache
CachedIds ==
    {ReplicateTar, CivitaiUrl, SafetensorsUrl, ReplicateSafetensors, CivitaiSafetensors}

Repeat(x, n) == [i \in 1..n |-> x]

\* a list that needs one adapter name more than the pool holds
LongList == Repeat(HubSlug, Len(names) + 1)

\* lists of hub slugs
SlugLists == {Repeat(HubSlug, k) : k \in 1..MaxLoras}

\* lists mixing the kinds of identifier
MixedLists ==
    { <<HfUrl>>, <<SafetensorsUrl>>, <<InvalidId>>, <<ReplicateTar>>, <<CivitaiUrl>>,
      <<SafetensorsUrl, HubSlug>>,
      <<HubSlug, HfUrl>>, <<HubSlug, InvalidId>>,
      <<SafetensorsUrl, HubSlug, HfUrl>>,
      <<HubSlug, SafetensorsUrl, InvalidId>> }

\* the values of the hf_loras argument (None and [] are both <<>>)
LoraLists == {<<>>} \cup SlugLists \cup MixedLists \cup {LongList}

\* the values of the lora_scales argument (None and [] are both <<>>):
\* lists whose entries differ by position
ScaleLists == {<<>>} \cup {[i \in 1..k |-> i] : k \in 1..MaxScales}

\* input images of image-to-image mode, as <<width, height>>; <<>> is None
NoImage == <<>>
Images == {NoImage, <<2000, 1000>>}

\* the aspect_ratio arguments tried
AspectChoices == {"1:1", "16:9"}

OutputFormats == {"webp", "png"}

(***************************************************************************)
(* State.                                                                  *)
(***************************************************************************)
VARIABLES
    \* self.* and the pipelines
    last_loaded_loras,   \* self.last_loaded_loras
    loaded_adapters,     \* adapters registered in the unet the two pipelines share
    active_adapters,     \* arguments of the last set_adapters since the last unload
    attn_processor,      \* attention processor of the shared unet
    \* the running predict call
    pc,                  \* position in predict
    image,               \* argument image
    width, height,       \* locals width, height
    flux_kwargs,         \* width and height entries of flux_kwargs
    hf_loras,            \* argument hf_loras
    lora_scales,         \* argument lora_scales
    calls,               \* library calls made by this predict call, in order
    load_loras_calls,    \* arguments of the load_loras invocations of this call
    handled,             \* branch of load_loras taken for each identifier, in order
    pipe_results,        \* outcome of each invocation of pipe(...)
    error,               \* exception that ended the call, "none" when none
    num_outputs,         \* argument num_outputs
    disable_safety_checker,
    has_nsfw_content,    \* flags returned by run_safety_checker
    output_format,
    output_paths         \* the paths written by image.save, which predict returns

vars == << last_loaded_loras, loaded_adapters, active_adapters, attn_processor,
           pc, image, width, height, flux_kwargs, hf_loras, lora_scales,
           calls, load_loras_calls, handled, pipe_results, error, num_outputs,
           disable_safety_checker, has_nsfw_content, output_format,
           output_paths >>

self_vars == << last_loaded_loras, loaded_adapters, active_adapters, attn_processor >>
dims_vars == << image, width, height, flux_kwargs >>
lora_vars == << hf_loras, lora_scales, load_loras_calls, handled >>
out_vars == << num_outputs, disable_safety_checker, has_nsfw_content,
               output_format, output_paths >>

NoActive == [names |-> <<>>, weights |-> <<>>]

(***************************************************************************)
(* setup.  last_loaded_loras starts as {}, which equals no non-empty list   *)
(* of identifiers; <<>> stands for it.                                     *)
(***************************************************************************)
Init ==
    /\ last_loaded_loras = <<>>
    /\ loaded_adapters = <<>>
    /\ active_adapters = NoActive
    /\ attn_processor = "default"
    /\ pc = "idle"
    /\ image = NoImage
    /\ width = 0
    /\ height = 0
    /\ flux_kwargs = [width |-> 0, height |-> 0]
    /\ hf_loras = <<>>
    /\ lora_scales = <<>>
    /\ calls = <<>>
    /\ load_loras_calls = <<>>
    /\ handled = <<>>
    /\ pipe_results = <<>>
    /\ error = "none"
    /\ num_outputs = 0
    /\ disable_safety_checker = TRUE
    /\ has_nsfw_content = <<>>
    /\ output_format = "webp"
    /\ output_paths = <<>>

(***************************************************************************)
(* predict, lines 357-401: dimensions and mode                             *)
(***************************************************************************)
Min(a, b) == IF a <= b THEN a ELSE b
Max(a, b) == IF a >= b THEN a ELSE b

make_multiple_of_16(n) == ((n + 15) \div 16) * 16

aspect_ratio_to_width_height(aspect_ratio) == ASPECT_RATIOS[aspect_ratio]

\* scale = min(MAX_IMAGE_SIZE / width, MAX_IMAGE_SIZE / height, 1) and
\* int(width * scale), int(height * scale) when scale < 1; the quotient by the
\* larger side is the float product truncated for the Images above
ScaledDown(w, h) ==
    IF w > MAX_IMAGE_SIZE \/ h > MAX_IMAGE_SIZE
    THEN << (w * MAX_IMAGE_SIZE) \div Max(w, h), (h * MAX_IMAGE_SIZE) \div Max(w, h) >>
    ELSE << w, h >>

\* width and height of image-to-image mode, lines 378-390
ImageWidthHeight(img) ==
    LET s == ScaledDown(img[1], img[2])
    IN  << make_multiple_of_16(s[1]), make_multiple_of_16(s[2]) >>

PredictStart ==
    /\ pc \in {"idle", "returned", "failed"}
    /\ \E aspect_ratio \in AspectChoices, img \in Images :
         LET wh == aspect_ratio_to_width_height(aspect_ratio)
             dims == IF img # NoImage THEN ImageWidthHeight(img) ELSE wh
         IN  /\ flux_kwargs' = [width |-> wh[1], height |-> wh[2]]
             /\ image' = img
             /\ width' = dims[1]
             /\ height' = dims[2]
    /\ pc' = "loras"
    /\ hf_loras' = <<>>
    /\ lora_scales' = <<>>
    /\ calls' = <<>>
    /\ load_loras_calls' = <<>>
    /\ handled' = <<>>
    /\ pipe_results' = <<>>
    /\ error' = "none"
    /\ num_outputs' = 0
    /\ disable_safety_checker' = TRUE
    /\ has_nsfw_content' = <<>>
    /\ output_format' = "webp"
    /\ output_paths' = <<>>
    /\ UNCHANGED self_vars

(***************************************************************************)
(* The LoRA adapters of the pipelines.  txt2img_pipe and img2img_pipe are  *)
(* built over the same unet and text encoder, so both see one set of       *)
(* adapters.  st is a record [count, adapters, calls, handled, error]       *)
(* holding the local count, the adapters registered, the library calls     *)
(* made, the branch taken for each identifier and the exception raised so  *)
(* far.                                                                    *)
(***************************************************************************)
\* name the library gives an adapter loaded without adapter_name
DefaultAdapterName(n) == "default_" \o ToString(n)

\* variant of Raise that logs the problem and carries on
Raise_Ignored(st, exc) == st

Raise(st, exc) == [st EXCEPT !.error = exc]

\* pipe.load_lora_weights(source, adapter_name=adapter_name)
load_lora_weights(st, source, adapter_name) ==
    [st EXCEPT !.adapters = Append(@, [name |-> adapter_name, source |-> source]),
               !.calls = Append(@, "load_lora_weights")]

\* adapter_name = names[count]; count += 1; load_lora_weights(.., adapter_name=adapter_name)
LoadNamed(st, hf_lora) ==
    IF st.count >= Len(names)
    THEN Raise(st, "IndexError")
    ELSE load_lora_weights([st EXCEPT !.count = @ + 1], hf_lora, names[st.count + 1])

\* adapter_name = names[count]; count += 1; load_lora_weights(slug, weight_name=weight_name)
LoadHfUrl(st, hf_lora) ==
    IF st.count >= Len(names)
    THEN Raise(st, "IndexError")
    ELSE load_lora_weights([st EXCEPT !.count = @ + 1], hf_lora,
                           DefaultAdapterName(Len(st.adapters)))

\* self.weights_cache.ensure(url) and self.weights_cache.ensure(url, file=True)
ensure(url, file) == [url |-> url, file |-> file]

\* the branch of the loop entered for hf_lora, with the cache fetches it makes
Enter(st, hf_lora, branch, fetches) ==
    [st EXCEPT !.handled = Append(@, [hf_lora |-> hf_lora, handler |-> branch,
                                      ensured |-> fetches])]

\* variant of LoadOne that looks at the .safetensors suffix before the
\* huggingface.co and Civitai URLs
LoadOne_SuffixFirst(st, hf_lora, download_fails) ==
    IF MatchesHubSlug(hf_lora)
    THEN LoadNamed(Enter(st, hf_lora, "hub_slug", <<>>), hf_lora)
    ELSE IF MatchesReplicateTar(hf_lora) THEN
        LET e == Enter(st, hf_lora, "replicate", << ensure(hf_lora, FALSE) >>)
        IN  IF download_fails THEN Raise(e, "DownloadError") ELSE LoadNamed(e, hf_lora)
    ELSE IF EndsWithSafetensors(hf_lora) THEN
        LET e == Enter(st, hf_lora, "safetensors", << ensure(hf_lora, TRUE) >>)
        IN  IF download_fails THEN e ELSE LoadNamed(e, hf_lora)
    ELSE IF MatchesHfUrl(hf_lora)
    THEN LoadHfUrl(Enter(st, hf_lora, "hf_url", <<>>), hf_lora)
    ELSE IF MatchesCivitai(hf_lora) THEN
        LET e == Enter(st, hf_lora, "civitai", << ensure(hf_lora, TRUE) >>)
        IN  IF download_fails THEN Raise(e, "DownloadError") ELSE LoadNamed(e, hf_lora)
    ELSE Raise(Enter(st, hf_lora, "invalid", <<>>), "InvalidLora")

\* one iteration of the loop of load_loras; download_fails tells whether
\* weights_cache.ensure raises for this identifier
LoadOne(st, hf_lora, download_fails) ==
    IF MatchesHubSlug(hf_lora)
    THEN LoadNamed(Enter(st, hf_lora, "hub_slug", <<>>), hf_lora)
    ELSE IF MatchesReplicateTar(hf_lora) THEN
        LET e == Enter(st, hf_lora, "replicate", << ensure(hf_lora, FALSE) >>)
        IN  IF download_fails THEN Raise(e, "DownloadError") ELSE LoadNamed(e, hf_lora)
    ELSE IF MatchesHfUrl(hf_lora)
    THEN LoadHfUrl(Enter(st, hf_lora, "hf_url", <<>>), hf_lora)
    ELSE IF MatchesCivitai(hf_lora) THEN
        LET e == Enter(st, hf_lora, "civitai", << ensure(hf_lora, TRUE) >>)
        IN  IF download_fails THEN Raise(e, "DownloadError") ELSE LoadNamed(e, hf_lora)
    ELSE IF EndsWithSafetensors(hf_lora) THEN
        LET e == Enter(st, hf_lora, "safetensors", << ensure(hf_lora, TRUE) >>)
        IN  IF download_fails THEN e ELSE LoadNamed(e, hf_lora)
    ELSE Raise(Enter(st, hf_lora, "invalid", <<>>), "InvalidLora")

RECURSIVE LoadLoop(_, _, _, _)
LoadLoop(st, loras, failed, i) ==
    IF i > Len(loras) \/ st.error # "none"
    THEN st
    ELSE LoadLoop(LoadOne(st, loras[i], i \in failed), loras, failed, i + 1)

\* python slice xs[:n]
Prefix(xs, n) == SubSeq(xs, 1, Min(n, Len(xs)))

AdapterNames(adapters) == {adapters[i].name : i \in DOMAIN adapters}

\* pipe.set_adapters(adapter_names, adapter_weights=adapter_weights); strict
\* tells whether the library rejects a name that no adapter is registered under
set_adapters(s, adapter_names, adapter_weights, strict) ==
    IF strict /\ \E i \in DOMAIN adapter_names :
                     adapter_names[i] \notin AdapterNames(s.loaded_adapters)
    THEN [s EXCEPT !.calls = Append(@, "set_adapters"), !.error = "ValueError"]
    ELSE [s EXCEPT !.calls = Append(@, "set_adapters"),
                   !.active_adapters = [names |-> adapter_names,
                                        weights |-> adapter_weights]]

\* pipe.unload_lora_weights()
unload_lora_weights(s) ==
    [s EXCEPT !.loaded_adapters = <<>>,
              !.active_adapters = NoActive,
              !.calls = Append(@, "unload_lora_weights")]

(***************************************************************************)
(* load_loras.  s is a record [last_loaded_loras, loaded_adapters,         *)
(* active_adapters, calls, load_loras_calls, handled, error]; failed is    *)
(* the set of positions of hf_loras whose download fails.                  *)
(***************************************************************************)
load_loras(s, loras, scales, failed, strict) ==
    LET st == LoadLoop([count |-> 0, adapters |-> s.loaded_adapters,
                        calls |-> s.calls, handled |-> <<>>, error |-> "none"],
                       loras, failed, 1)
        s1 == [s EXCEPT !.loaded_adapters = st.adapters,
                        !.calls = st.calls,
                        !.handled = st.handled,
                        !.error = st.error,
                        !.load_loras_calls = Append(@, [hf_loras |-> loras,
                                                        lora_scales |-> scales])]
    IN  IF st.error # "none"
        THEN s1
        ELSE set_adapters([s1 EXCEPT !.last_loaded_loras = loras],
                          Prefix(names, st.count), Prefix(scales, st.count), strict)

(***************************************************************************)
(* predict, lines 403-422                                                  *)
(***************************************************************************)
\* variant of LorasAreNew that never reuses the loaded set
LorasAreNew_Always(loras, last) == TRUE

\* hf_loras != self.last_loaded_loras
LorasAreNew(loras, last) == loras # last

LorasPhase(s, loras, scales, failed, strict) ==
    IF loras # <<>>
    THEN IF LorasAreNew(loras, s.last_loaded_loras)
         THEN LET u == unload_lora_weights(s)
              IN  IF scales = <<>>
                  THEN load_loras(u, loras, Repeat(DefaultScale, Len(loras)), failed, strict)
                  ELSE IF Len(scales) = 1
                  THEN load_loras(u, loras, Repeat(scales[1], Len(loras)), failed, strict)
                  ELSE IF Len(scales) >= Len(loras)
                  THEN load_loras(u, loras, scales, failed, strict)
                  ELSE u
         ELSE s
    ELSE unload_lora_weights(s)

CachedPositions(loras) == {i \in DOMAIN loras : loras[i] \in CachedIds}

\* the library's treatment of unregistered names matters only when a name
\* handed to set_adapters can be unregistered
StrictChoices(loras) ==
    IF \E i \in DOMAIN loras : MatchesHfUrl(loras[i]) THEN BOOLEAN ELSE {TRUE}

PredictLoras ==
    /\ pc = "loras"
    /\ \E loras \in LoraLists, scales \in ScaleLists :
       \E failed \in SUBSET CachedPositions(loras), strict \in StrictChoices(loras) :
         LET s == [last_loaded_loras |-> last_loaded_loras,
                   loaded_adapters |-> loaded_adapters,
                   active_adapters |-> active_adapters,
                   calls |-> calls,
                   load_loras_calls |-> load_loras_calls,
                   handled |-> handled,
                   error |-> "none"]
             r == LorasPhase(s, loras, scales, failed, strict)
         IN  /\ hf_loras' = loras
             /\ lora_scales' = scales
             /\ last_loaded_loras' = r.last_loaded_loras
             /\ loaded_adapters' = r.loaded_adapters
             /\ active_adapters' = r.active_adapters
             /\ calls' = r.calls
             /\ load_loras_calls' = r.load_loras_calls
             /\ handled' = r.handled
             /\ error' = r.error
             /\ pc' = IF r.error = "none" THEN "infer" ELSE "failed"
    /\ UNCHANGED << attn_processor, dims_vars, pipe_results, out_vars >>

(***************************************************************************)
(* predict, lines 424-460: inference, retried once after a shape mismatch. *)
(* An outcome of pipe(...) is a record [exc, mat1_mat2]: the type of the   *)
(* exception raised ("none" when the call returns) and whether its message *)
(* contains "mat1 and mat2 shapes cannot be multiplied".                   *)
(***************************************************************************)
Returns == [exc |-> "none", mat1_mat2 |-> FALSE]

PipeOutcomes ==
    {Returns} \cup [exc : {"RuntimeError"}, mat1_mat2 : BOOLEAN]
              \cup {[exc |-> "ValueError", mat1_mat2 |-> TRUE]}

\* except RuntimeError as e
IsRuntimeError(e) == e.exc = "RuntimeError"

\* variant of IsShapeMismatch that retries whatever the message
IsShapeMismatch_Any(e) == TRUE

\* "mat1 and mat2 shapes cannot be multiplied" in str(e)
IsShapeMismatch(e) == e.mat1_mat2

PredictInfer ==
    /\ pc = "infer"
    /\ \E n \in 1..MaxOutputs, e \in PipeOutcomes :
         /\ num_outputs' = n
         /\ pipe_results' = Append(pipe_results, e)
         /\ calls' = Append(calls, "pipe")
         /\ IF e = Returns
            THEN pc' = "output" /\ error' = error
            ELSE IF IsRuntimeError(e) /\ IsShapeMismatch(e)
            THEN pc' = "retry" /\ error' = error
            ELSE pc' = "failed" /\ error' = e.exc
    /\ UNCHANGED << self_vars, dims_vars, lora_vars, disable_safety_checker,
                    has_nsfw_content, output_format, output_paths >>

PredictRetry ==
    /\ pc = "retry"
    /\ attn_processor' = "AttnProcessor2_0"
    /\ \E e \in PipeOutcomes :
         /\ pipe_results' = Append(pipe_results, e)
         /\ calls' = calls \o << "set_attn_processor", "pipe" >>
         /\ IF e = Returns
            THEN pc' = "output" /\ error' = error
            ELSE pc' = "failed" /\ error' = e.exc
    /\ UNCHANGED << last_loaded_loras, loaded_adapters, active_adapters,
                    dims_vars, lora_vars, out_vars >>

(***************************************************************************)
(* predict, lines 462-480: safety filter and output files                  *)
(***************************************************************************)
\* f"/tmp/out-{i}.{output_format}"
OutputPath(i, format) == "/tmp/out-" \o ToString(i) \o "." \o format

\* variant of IsFiltered that lets every image through
IsFiltered_Never(disabled, flags, i) == FALSE

\* not disable_safety_checker and has_nsfw_content[i]
IsFiltered(disabled, flags, i) == ~disabled /\ flags[i + 1]

\* the loop over enumerate(output.images), from index i on
RECURSIVE SaveImages(_, _, _, _, _, _)
SaveImages(paths, i, n, disabled, flags, format) ==
    IF i >= n
    THEN paths
    ELSE IF IsFiltered(disabled, flags, i)
    THEN SaveImages(paths, i + 1, n, disabled, flags, format)
    ELSE SaveImages(Append(paths, OutputPath(i, format)), i + 1, n, disabled, flags, format)

PredictOutput ==
    /\ pc = "output"
    /\ \E disabled \in BOOLEAN, format \in OutputFormats :
       \E flags \in (IF disabled THEN {<<>>} ELSE [1..num_outputs -> BOOLEAN]) :
         LET paths == SaveImages(<<>>, 0, num_outputs, disabled, flags, format)
         IN  /\ disable_safety_checker' = disabled
             /\ output_format' = format
             /\ has_nsfw_content' = flags
             /\ output_paths' = paths
             /\ IF Len(paths) = 0
                THEN pc' = "failed" /\ error' = "NSFW content detected"
                ELSE pc' = "returned" /\ error' = error
    /\ UNCHANGED << self_vars, dims_vars, lora_vars, calls, pipe_results, num_outputs >>

(***************************************************************************)
(* Properties.                                                             *)
(***************************************************************************)
\* the step of predict that handles hf_loras (lines 403-422) has just run
LorasStep == pc = "loras" /\ pc' # "loras"

LoraCalls == {"unload_lora_weights", "load_lora_weights", "set_adapters"}

Occurs(op, log) == \E i \in DOMAIN log : log[i] = op

\* C1: a predict call whose non-empty hf_loras equals last_loaded_loras makes
\* no unload_lora_weights, no load_lora_weights and no set_adapters call (and
\* does not invoke load_loras) before it runs inference.
C1_NoReloadOfSameLoras ==
    [][(LorasStep /\ hf_loras' # <<>> /\ hf_loras' = last_loaded_loras)
         => /\ pc' = "infer"
            /\ \A op \in LoraCalls : ~Occurs(op, calls')
            /\ load_loras_calls' = <<>>
            /\ loaded_adapters' = loaded_adapters
            /\ active_adapters' = active_adapters]_vars

\* a call that repeats the loaded list is about to run inference, untouched
C1_Witness ==
    /\ pc = "infer"
    /\ hf_loras = <<HubSlug, HubSlug>>
    /\ hf_loras = last_loaded_loras
    /\ calls = <<>>
    /\ Len(loaded_adapters) = 2

\* the scale the request asks for at position i of hf_loras
RequestedScale(scales, i) ==
    IF scales = <<>> THEN DefaultScale
    ELSE IF Len(scales) = 1 THEN scales[1]
    ELSE scales[i]

\* C2: a predict call whose non-empty hf_loras differs from last_loaded_loras
\* invokes load_loras exactly once, with a scale for every identifier: 0.8
\* each without lora_scales, the single value each for one entry, the given
\* lora_scales for every longer list.
C2_LoadLorasOnceWithScales ==
    [][(LorasStep /\ hf_loras' # <<>> /\ hf_loras' # last_loaded_loras)
         => /\ Len(load_loras_calls') = 1
            /\ load_loras_calls'[1].hf_loras = hf_loras'
            /\ Len(load_loras_calls'[1].lora_scales) >= Len(hf_loras')
            /\ \A i \in DOMAIN hf_loras' :
                 /\ Len(lora_scales') \in {0, 1} \/ i <= Len(lora_scales')
                 /\ load_loras_calls'[1].lora_scales[i] = RequestedScale(lora_scales', i)]_vars

\* the scales of the current request, one per identifier
RequestedScales ==
    [i \in 1..(IF Len(lora_scales) \in {0, 1} THEN Len(hf_loras)
               ELSE Min(Len(lora_scales), Len(hf_loras))) |->
        RequestedScale(lora_scales, i)]

LoadedSources == [k \in DOMAIN loaded_adapters |-> loaded_adapters[k].source]

\* C3: whenever inference runs for a request with non-empty hf_loras, the
\* scale weight in effect for each active adapter is the one of the current
\* request: its lora_scales, or 0.8.
C3_ScalesOfCurrentRequest ==
    (pc = "infer" /\ hf_loras # <<>>)
        => \A a \in DOMAIN active_adapters.weights :
               /\ a <= Len(RequestedScales)
               /\ active_adapters.weights[a] = RequestedScales[a]

Recognized(hf_lora) ==
    \/ MatchesHubSlug(hf_lora)
    \/ MatchesReplicateTar(hf_lora)
    \/ MatchesHfUrl(hf_lora)
    \/ MatchesCivitai(hf_lora)
    \/ EndsWithSafetensors(hf_lora)

HasInvalid(loras) == \E i \in DOMAIN loras : ~Recognized(loras[i])

\* C4: when a request that triggers a load names an identifier of no
\* recognized form, predict fails, last_loaded_loras keeps the value it had
\* before the request, and the pipeline is never invoked for the request.
C4_InvalidLoraFails ==
    /\ [][(LorasStep /\ load_loras_calls' # <<>> /\ HasInvalid(hf_loras'))
            => /\ pc' = "failed"
               /\ error' # "none"
               /\ last_loaded_loras' = last_loaded_loras]_vars
    /\ []((load_loras_calls # <<>> /\ HasInvalid(hf_loras)) => pipe_results = <<>>)

\* a load that met an invalid identifier after loading another one, while a
\* list from an earlier request stays recorded
C4_Witness ==
    /\ pc = "failed"
    /\ error = "InvalidLora"
    /\ hf_loras = <<HubSlug, InvalidId>>
    /\ last_loaded_loras = <<HubSlug>>
    /\ Len(loaded_adapters) = 1
    /\ pipe_results = <<>>

\* C5: a predict call invokes the pipeline at most twice; the second
\* invocation follows a RuntimeError mentioning the shape mismatch and the
\* switch of the attention processor; any other error of the first
\* invocation, and any error of the second, ends the call with that error.
C5_AtMostOneRetry ==
    /\ Len(pipe_results) <= 2
    /\ Len(pipe_results) = 2 =>
         /\ pipe_results[1].exc = "RuntimeError"
         /\ pipe_results[1].mat1_mat2
         /\ attn_processor = "AttnProcessor2_0"
         /\ Len(calls) >= 3
         /\ SubSeq(calls, Len(calls) - 2, Len(calls))
                = << "pipe", "set_attn_processor", "pipe" >>
         /\ pipe_results[2] # Returns =>
              pc = "failed" /\ error = pipe_results[2].exc
    /\ (/\ Len(pipe_results) >= 1
        /\ pipe_results[1] # Returns
        /\ ~(pipe_results[1].exc = "RuntimeError" /\ pipe_results[1].mat1_mat2)) =>
         /\ Len(pipe_results) = 1
         /\ pc = "failed"
         /\ error = pipe_results[1].exc
         /\ ~Occurs("set_attn_processor", calls)

\* the retry was made and failed in its turn
C5_Witness ==
    /\ pc = "failed"
    /\ Len(pipe_results) = 2
    /\ pipe_results[2] = [exc |-> "RuntimeError", mat1_mat2 |-> TRUE]
    /\ error = "RuntimeError"

\* image i (counted from 0) passes the safety filter
Kept(i) == disable_safety_checker \/ ~has_nsfw_content[i + 1]

\* C6: predict returns exactly the generated images that are not flagged (all
\* of them when the safety checker is disabled), in generation order, image i
\* at /tmp/out-<i>.<format>; it fails when every image is flagged, and never
\* returns an empty list.
C6_SafeImagesReturned ==
    /\ pc = "returned" =>
         /\ Len(output_paths) >= 1
         /\ Len(output_paths) = Cardinality({i \in 0..(num_outputs - 1) : Kept(i)})
         /\ \A i \in 0..(num_outputs - 1) :
              Kept(i) <=> Occurs(OutputPath(i, output_format), output_paths)
         /\ \A k \in DOMAIN output_paths : \A l \in DOMAIN output_paths :
              k < l => \E i \in 0..(num_outputs - 1) : \E j \in 0..(num_outputs - 1) :
                          /\ i < j
                          /\ output_paths[k] = OutputPath(i, output_format)
                          /\ output_paths[l] = OutputPath(j, output_format)
    /\ (has_nsfw_content # <<>> /\ \A i \in 0..(num_outputs - 1) : ~Kept(i)) =>
         /\ pc = "failed"
         /\ error = "NSFW content detected"

\* of two images the first is flagged: the second is returned under its index
C6_Witness ==
    /\ pc = "returned"
    /\ ~disable_safety_checker
    /\ has_nsfw_content = << TRUE, FALSE >>
    /\ output_paths = << "/tmp/out-1.png" >>

\* load_loras went through its loop and called set_adapters in this call
LoadCompleted == load_loras_calls # <<>> /\ Occurs("set_adapters", calls)

\* C7: when load_loras completes, the k-th LoRA loaded is registered under
\* the k-th name of the pool 'a'..'z', the names handed to set_adapters are
\* exactly the names registered, and a list needing more names than the pool
\* holds fails.
C7_AdapterNamesFromPool ==
    /\ LoadCompleted =>
         /\ Len(loaded_adapters) <= Len(names)
         /\ \A k \in DOMAIN loaded_adapters : loaded_adapters[k].name = names[k]
         /\ active_adapters.names =
                [k \in DOMAIN loaded_adapters |-> loaded_adapters[k].name]
    /\ (load_loras_calls # <<>> /\ hf_loras = LongList) => pc = "failed"

\* C8: in image-to-image mode the width and height handed to the inference
\* call are the ones derived from the input image, whatever aspect_ratio is.
C8_ImageSizeHandedToPipe ==
    (pc = "infer" /\ image # NoImage)
        => flux_kwargs.width = width /\ flux_kwargs.height = height

\* C9: when load_loras completes, every adapter it loaded and activated has
\* the scale found in lora_scales at the position its identifier has in
\* hf_loras.
C9_ScaleAtPositionOfIdentifier ==
    LoadCompleted =>
        \A k \in DOMAIN loaded_adapters : \A a \in DOMAIN active_adapters.names :
            loaded_adapters[k].name = active_adapters.names[a] =>
                \E i \in DOMAIN hf_loras :
                    /\ hf_loras[i] = loaded_adapters[k].source
                    /\ active_adapters.weights[a] = load_loras_calls[1].lora_scales[i]

\* C10: when a call with non-empty hf_loras reaches the inference step without
\* loading, because last_loaded_loras names its list, the adapters loaded in
\* the pipeline are those of the list (stated for lists of hub slugs, which
\* load_loras never skips).
C10_LoadedAdaptersOfRequest ==
    (/\ pc = "infer"
     /\ hf_loras # <<>>
     /\ \A i \in DOMAIN hf_loras : MatchesHubSlug(hf_loras[i])
     /\ calls = <<>>)
        => LoadedSources = hf_loras

(***************************************************************************)
(* load_loras on its own: the source-type dispatch, over every identifier. *)
(***************************************************************************)
DispatchIds ==
    { HubSlug, ReplicateTar, HfUrl, CivitaiUrl, SafetensorsUrl, InvalidId,
      ReplicateSafetensors, CivitaiSafetensors, HfBinUrl }

DispatchLists == UNION {[1..k -> DispatchIds] : k \in 1..MaxDispatch}

\* the state after setup, with the argument of a load_loras call
InitDispatch ==
    /\ hf_loras \in DispatchLists
    /\ lora_scales = <<>>
    /\ pc = "load_loras"
    /\ last_loaded_loras = <<>>
    /\ loaded_adapters = <<>>
    /\ active_adapters = NoActive
    /\ attn_processor = "default"
    /\ image = NoImage
    /\ width = 0
    /\ height = 0
    /\ flux_kwargs = [width |-> 0, height |-> 0]
    /\ calls = <<>>
    /\ load_loras_calls = <<>>
    /\ handled = <<>>
    /\ pipe_results = <<>>
    /\ error = "none"
    /\ num_outputs = 0
    /\ disable_safety_checker = TRUE
    /\ has_nsfw_content = <<>>
    /\ output_format = "webp"
    /\ output_paths = <<>>

\* self.load_loras(hf_loras, [0.8] * len(hf_loras))
LoadLorasCall ==
    /\ pc = "load_loras"
    /\ \E failed \in SUBSET CachedPositions(hf_loras), strict \in StrictChoices(hf_loras) :
         LET s == [last_loaded_loras |-> last_loaded_loras,
                   loaded_adapters |-> loaded_adapters,
                   active_adapters |-> active_adapters,
                   calls |-> calls,
                   load_loras_calls |-> load_loras_calls,
                   handled |-> handled,
                   error |-> "none"]
             r == load_loras(s, hf_loras, Repeat(DefaultScale, Len(hf_loras)),
                             failed, strict)
         IN  /\ last_loaded_loras' = r.last_loaded_loras
             /\ loaded_adapters' = r.loaded_adapters
             /\ active_adapters' = r.active_adapters
             /\ calls' = r.calls
             /\ load_loras_calls' = r.load_loras_calls
             /\ handled' = r.handled
             /\ error' = r.error
             /\ pc' = IF r.error = "none" THEN "loaded" ELSE "failed"
    /\ UNCHANGED << hf_loras, lora_scales, attn_processor, dims_vars,
                    pipe_results, out_vars >>

NextDispatch == LoadLorasCall

SpecDispatch == InitDispatch /\ [][NextDispatch]_vars

\* the forms of identifier, in the order load_loras tries them
FormOrder == << "hub_slug", "replicate", "hf_url", "civitai", "safetensors" >>

HasForm(form, hf_lora) ==
    CASE form = "hub_slug"    -> MatchesHubSlug(hf_lora)
      [] form = "replicate"   -> MatchesReplicateTar(hf_lora)
      [] form = "hf_url"      -> MatchesHfUrl(hf_lora)
      [] form = "civitai"     -> MatchesCivitai(hf_lora)
      [] form = "safetensors" -> EndsWithSafetensors(hf_lora)

FormsOf(hf_lora) == {k \in DOMAIN FormOrder : HasForm(FormOrder[k], hf_lora)}

\* the earliest form hf_lora has, "invalid" when it has none
FirstForm(hf_lora) ==
    IF FormsOf(hf_lora) = {}
    THEN "invalid"
    ELSE FormOrder[CHOOSE k \in FormsOf(hf_lora) : \A j \in FormsOf(hf_lora) : k <= j]

\* C11: load_loras handles each identifier it reaches exactly once, by the
\* earliest of the forms hub slug, Replicate tar URL, huggingface.co URL,
\* Civitai URL, .safetensors name that the identifier has, and by the error
\* branch when it has none; the Replicate, Civitai and .safetensors handlers,
\* and only they, fetch through the download cache, under the full identifier.
C11_DispatchByFirstMatch ==
    /\ Len(handled) <= Len(hf_loras)
    /\ pc = "loaded" => Len(handled) = Len(hf_loras)
    /\ \A j \in DOMAIN handled :
         /\ handled[j].hf_lora = hf_loras[j]
         /\ handled[j].handler = FirstForm(hf_loras[j])
         /\ Len(handled[j].ensured) =
                IF FirstForm(hf_loras[j]) \in {"replicate", "civitai", "safetensors"}
                THEN 1 ELSE 0
         /\ \A e \in DOMAIN handled[j].ensured :
                handled[j].ensured[e].url = hf_loras[j]

\* a huggingface.co URL and a Replicate URL, both ending in .safetensors, went
\* to the huggingface.co and the Replicate handler
C11_Witness ==
    /\ pc = "loaded"
    /\ hf_loras = << HfUrl, ReplicateSafetensors >>
    /\ Len(handled) = 2
    /\ handled[1].handler = "hf_url"
    /\ handled[1].ensured = <<>>
    /\ handled[2].handler = "replicate"
    /\ handled[2].ensured = << [url |-> ReplicateSafetensors, file |-> FALSE] >>

Next ==
    \/ PredictStart
    \/ PredictLoras
    \/ PredictInfer
    \/ PredictRetry
    \/ PredictOutput

Spec == Init /\ [][Next]_vars
====
